---- MODULE Spec2Model ----
(***************************************************************************)
(* A model of home-utils: gphoto_parser.py (fingerprint catalogs, the      *)
(* missing-media report, the Google sidecar timestamps) and                *)
(* update_metadata.py (the WhatsApp / Telegram filename timestamps).       *)
(***************************************************************************)
EXTENDS Integers, Sequences, FiniteSets, TLC

VARIABLES
    \* _hamming_distance called on two strings, in both argument orders:
    \* hd_pc is "call", "returned" or "raised"
    hd_pc, chaine1, chaine2, hd_ab, hd_ba,
    \* _check_geodata called on one sidecar document
    geo_pc, supplemental_metadata, geo_result,
    \* find_missing_media: the two catalogs read, the loop over src_data, the
    \* verdicts logged, and the report document written at the end
    fm_pc, src_data, dst_data, remaining, missing_media, verdicts, output_file,
    \* the media files and sidecar documents on disk, the temporary siblings the
    \* video parsers write, and one run of update_metadata's main or of
    \* copy_and_set_google_metadata: its arguments, the directory entries still
    \* to visit, the entry being remuxed, what was logged for each file, how
    \* the previous run ended, and which parser stamped each file
    files, sidecars, siblings, run_pc, args, todo, cur, log, exit, stamped,
    \* _get_google_metadata_file called on one media file: the names in the
    \* file's directory, those the loop has still to visit, the loop's two
    \* locals, and how the call ended
    md_pc, media_path, directory, unvisited, match_count, metadata_file,
    \* main of gphoto_parser with --generate-media-infos: the files of the
    \* tree, those rglob has still to yield, the catalog being built, the
    \* files hashed so far, the catalog document, and how the run ended
    gi_pc, tree, pending, export_info, hashed, media_info_file, gi_exit

hd_vars == <<hd_pc, chaine1, chaine2, hd_ab, hd_ba>>
geo_vars == <<geo_pc, supplemental_metadata, geo_result>>
fm_vars == <<fm_pc, src_data, dst_data, remaining, missing_media, verdicts, output_file>>
ts_vars == <<files, sidecars, siblings, run_pc, args, todo, cur, log, exit, stamped>>
md_vars == <<md_pc, media_path, directory, unvisited, match_count, metadata_file>>
gi_vars == <<gi_pc, tree, pending, export_info, hashed, media_info_file, gi_exit>>
vars == <<hd_vars, geo_vars, fm_vars, ts_vars, md_vars, gi_vars>>

\* ------------------------------------------------------------------ bounds
\* longest string handed to _hamming_distance
MaxLen == 3

Chars == {"a", "b"}

RECURSIVE StringsOfLen(_)
StringsOfLen(n) ==
    IF n = 0 THEN {<< >>}
    ELSE {Append(s, c) : s \in StringsOfLen(n - 1), c \in Chars}

Strings == UNION {StringsOfLen(n) : n \in 0..MaxLen}

Min(a, b) == IF a < b THEN a ELSE b

\* ------------------------------------------------------- _hamming_distance
\* zip(chaine1, chaine2): the pairs up to the shorter string's length
Zip(s1, s2) == [i \in 1..Min(Len(s1), Len(s2)) |-> <<s1[i], s2[i]>>]

RECURSIVE SumDiffering(_)
SumDiffering(pairs) ==
    IF pairs = << >> THEN 0
    ELSE (IF pairs[1][1] # pairs[1][2] THEN 1 ELSE 0) + SumDiffering(Tail(pairs))

\* mutant: c1 == c2 written for c1 != c2
HammingCountsEqual(s1, s2) ==
    SumDiffering([i \in 1..Min(Len(s1), Len(s2)) |->
                    IF s1[i] = s2[i] THEN <<"a", "b">> ELSE <<"a", "a">>])

\* sum(c1 != c2 for c1, c2 in zip(chaine1, chaine2))
_hamming_distance(s1, s2) == SumDiffering(Zip(s1, s2))

HdIdle ==
    /\ hd_pc = "idle"
    /\ chaine1 = << >>
    /\ chaine2 = << >>
    /\ hd_ab = 0
    /\ hd_ba = 0

InitHamming ==
    /\ hd_pc = "call"
    /\ chaine1 \in Strings
    /\ chaine2 \in Strings
    /\ hd_ab = 0
    /\ hd_ba = 0

\* the function is called in both argument orders; it has no raise statement,
\* so each call returns a number
HammingCall ==
    /\ hd_pc = "call"
    /\ hd_ab' = _hamming_distance(chaine1, chaine2)
    /\ hd_ba' = _hamming_distance(chaine2, chaine1)
    /\ hd_pc' = "returned"
    /\ UNCHANGED <<chaine1, chaine2, geo_vars, fm_vars, ts_vars, md_vars, gi_vars>>

\* ----------------------------------------------------------- _check_geodata
GeoFields == {"latitude", "longitude", "altitude", "latitudeSpan", "longitudeSpan"}

\* values a geoData field takes in the model (0 is 0.0)
GeoValues == {0, 1, 2}

\* latitude != longitude != altitude != latitude_span != longitude_span != 0.0
\* Python chains the comparisons pairwise and joins them with "and"
GeodataRaises(g) ==
    /\ g["latitude"] # g["longitude"]
    /\ g["longitude"] # g["altitude"]
    /\ g["altitude"] # g["latitudeSpan"]
    /\ g["latitudeSpan"] # g["longitudeSpan"]
    /\ g["longitudeSpan"] # 0

ZeroGeo == [f \in GeoFields |-> 0]

GeoIdle ==
    /\ geo_pc = "idle"
    /\ supplemental_metadata = [geoData |-> ZeroGeo]
    /\ geo_result = "none"

InitGeo ==
    /\ geo_pc = "call"
    /\ supplemental_metadata \in [geoData : [GeoFields -> GeoValues]]
    /\ geo_result = "none"

CheckGeodataRaise ==
    /\ geo_pc = "call"
    /\ GeodataRaises(supplemental_metadata.geoData)
    /\ geo_result' = "ValueError"
    /\ geo_pc' = "done"
    /\ UNCHANGED <<supplemental_metadata, hd_vars, fm_vars, ts_vars, md_vars, gi_vars>>

CheckGeodataReturn ==
    /\ geo_pc = "call"
    /\ ~GeodataRaises(supplemental_metadata.geoData)
    /\ geo_result' = "ok"
    /\ geo_pc' = "done"
    /\ UNCHANGED <<supplemental_metadata, hd_vars, fm_vars, ts_vars, md_vars, gi_vars>>

\* ------------------------------------------------------- find_missing_media
\* length of a hash string in the catalogs
HashLen == 4

\* total_distance > 10
Threshold == 10

\* the five hashes, in the order find_missing_media compares them
KindOrder == <<"average", "perceptual", "difference", "wavelet", "colorhash">>

Kinds == {KindOrder[i] : i \in 1..Len(KindOrder)}

Rep(c, n) == [i \in 1..n |-> c]

\* hash strings of the catalogs: two values on the source side; on the
\* destination side also a string differing in every position and one that is
\* a character shorter
SrcHashStrings == {Rep("a", HashLen), <<"a">> \o Rep("b", HashLen - 1)}

DstHashStrings == SrcHashStrings \cup {Rep("b", HashLen), Rep("a", HashLen - 1)}

\* families of catalogs read from the two documents: one name with every
\* combination of hash strings, or three names with two hash sets
OneName == {"n1"}

ManyNames == {"n1", "n2", "n3"}

FewHashSets == {[k \in Kinds |-> Rep("a", HashLen)],
                [k \in Kinds |-> <<"a">> \o Rep("b", HashLen - 1)]}

SrcDirs == {"/src", "/src/sub"}

DstDirs == {"/dst"}

Catalogs(names, dirs, hashsets) ==
    UNION {[S -> [path : dirs \X {"/"} \X S, hashes : hashsets]] : S \in SUBSET names}

\* an entry's path ends in the entry's name
WellFormed(catalog) == \A n \in DOMAIN catalog : catalog[n].path[3] = n

EmptyMap == [n \in {} |-> 0]

\* the kinds appended to mismatching_hashes, in order
mismatching_hashes(src_hashes, dst_hashes) ==
    SelectSeq(KindOrder, LAMBDA k : src_hashes[k] # dst_hashes[k])

RECURSIVE SumDistances(_, _, _)
SumDistances(kinds, src_hashes, dst_hashes) ==
    IF kinds = << >> THEN 0
    ELSE _hamming_distance(src_hashes[kinds[1]], dst_hashes[kinds[1]])
         + SumDistances(Tail(kinds), src_hashes, dst_hashes)

\* total_distance after the five if statements
total_distance(src_hashes, dst_hashes) ==
    SumDistances(mismatching_hashes(src_hashes, dst_hashes), src_hashes, dst_hashes)

\* mutant: >= written for >
HashMismatchAtThreshold(mismatching, total) ==
    mismatching # << >> /\ total >= Threshold

\* if mismatching_hashes and total_distance > 10
HashMismatch(mismatching, total) ==
    mismatching # << >> /\ total > Threshold

\* mutant: the whole source entry is stored in the report
MissingEntryWholeInfo(info) == info

\* missing_media[name] = {'path': info['path']}
MissingEntry(info) == [path |-> info.path]

\* if name not in dst_data
MissingFromDestination(name, dst) == name \notin DOMAIN dst

FmIdle ==
    /\ fm_pc = "idle"
    /\ src_data = EmptyMap
    /\ dst_data = EmptyMap
    /\ remaining = {}
    /\ missing_media = EmptyMap
    /\ verdicts = EmptyMap
    /\ output_file = [written |-> FALSE, content |-> EmptyMap]

InitMatch ==
    /\ fm_pc = "loop"
    /\ \/ /\ src_data \in Catalogs(OneName, {"/src"}, [Kinds -> SrcHashStrings])
          /\ dst_data \in Catalogs(OneName, DstDirs, [Kinds -> DstHashStrings])
       \/ /\ src_data \in Catalogs(ManyNames, SrcDirs, FewHashSets)
          /\ dst_data \in Catalogs(ManyNames, DstDirs, FewHashSets)
    /\ WellFormed(src_data)
    /\ WellFormed(dst_data)
    /\ remaining = DOMAIN src_data
    /\ missing_media = EmptyMap
    /\ verdicts = EmptyMap
    /\ output_file = [written |-> FALSE, content |-> EmptyMap]

\* one iteration of the loop for a name absent from dst_data; the duplicate
\* check cannot raise, a dict has each key once
RecordMissing(name) ==
    /\ fm_pc = "loop"
    /\ name \in remaining
    /\ MissingFromDestination(name, dst_data)
    /\ name \notin DOMAIN missing_media
    /\ missing_media' = (name :> MissingEntry(src_data[name])) @@ missing_media
    /\ remaining' = remaining \ {name}
    /\ UNCHANGED <<fm_pc, src_data, dst_data, verdicts, output_file, hd_vars, geo_vars, ts_vars, md_vars, gi_vars>>

\* one iteration of the loop for a name present in both catalogs
CompareHashes(name) ==
    /\ fm_pc = "loop"
    /\ name \in remaining
    /\ ~MissingFromDestination(name, dst_data)
    /\ LET src_hashes == src_data[name].hashes
           dst_hashes == dst_data[name].hashes
           mismatching == mismatching_hashes(src_hashes, dst_hashes)
           total == total_distance(src_hashes, dst_hashes)
       IN verdicts' = (name :> [warning |-> HashMismatch(mismatching, total),
                                mismatching_hashes |-> mismatching,
                                total_distance |-> total]) @@ verdicts
    /\ remaining' = remaining \ {name}
    /\ UNCHANGED <<fm_pc, src_data, dst_data, missing_media, output_file, hd_vars, geo_vars, ts_vars, md_vars, gi_vars>>

\* json.dump(missing_media, ...) after the loop
SaveReport ==
    /\ fm_pc = "loop"
    /\ remaining = {}
    /\ output_file' = [written |-> TRUE, content |-> missing_media]
    /\ fm_pc' = "done"
    /\ UNCHANGED <<src_data, dst_data, remaining, missing_media, verdicts, hd_vars, geo_vars, ts_vars, md_vars, gi_vars>>

\* ------------------------------------------------------------- media files
\* files in the library folder when the first run starts
MaxFiles == 2

\* streams in a video file
MaxStreams == 2

Folders == {"lib", "out"}

WaImage == "IMG-D2-WA0003.jpg"

TgImage == "IMG_D2_H12_001.jpg"

WaVideo == "VID-D2-WA0001.mp4"

TgVideo == "VID_D2_H12_001.mp4"

OtherImage == "holiday.jpg"

ImageNames == {WaImage, TgImage, OtherImage}

VideoNames == {WaVideo, TgVideo}

Names == ImageNames \cup VideoNames

\* a date and time as hours on one time line: day * 24 + hour of the day
Civil(day, hour) == day * 24 + hour

DayOf(t) == t \div 24

HourOf(t) == t % 24

\* ZoneInfo("Europe/Rome"): civil time is one hour ahead of UTC (two in
\* summer; midnight in Rome falls on the previous UTC day either way)
RomeUtcOffset == 1

\* the pattern each name matches, and the groups of the match: the date
\* (a day number) and, for Telegram, the time (an hour)
NameApp == [n \in Names |->
    CASE n \in {WaImage, WaVideo} -> "whatsapp"
      [] n \in {TgImage, TgVideo} -> "telegram"
      [] OTHER -> "none"]

NameType == [n \in Names |-> IF n \in VideoNames THEN "video" ELSE "image"]

date_str(n) == 2

time_str(n) == 12

\* pattern.match(file.name) for the pattern main compiles for (type, source);
\* match anchors at the start only, so a sidecar "<name>....json" matches the
\* pattern its media file matches
PatternMatches(type, source, n) == NameType[n] = type /\ NameApp[n] = source

\* "YYYY:MM:DD HH:MM:SS" (tag 36867): a text of two numbers; other texts are
\* the empty text and a text strptime rejects
strftime(dt) == <<DayOf(dt), HourOf(dt)>>

\* date_obj.strftime("%Y:%m:%d 00:00:00")
strftime_midnight(dt) == <<DayOf(dt), 0>>

WellFormedText(text) == Len(text) = 2

strptime(text) == Civil(text[1], text[2])

EmptyText == << >>

BadText == <<0>>

NoExif == [has |-> FALSE, text |-> EmptyText]

ExifOf(text) == [has |-> TRUE, text |-> text]

\* if date_time_original: None and b"" are both false
Truthy(exif) == exif.has /\ exif.text # EmptyText

\* an image: tag 36867 of its EXIF block and whether piexif can load and
\* dump the block
Image(exif, codec) == [exif |-> exif, codec |-> codec]

\* a video stream as ffprobe shows it: a tags map or none, a creation_time
\* tag or none, the tag's value as a UTC time ("...Z")
Stream(has_tags, has_ct, ct) ==
    [has_tags |-> has_tags, has_creation_time |-> has_ct, creation_time |-> ct]

NoTags == Stream(FALSE, FALSE, 0)

TagsOnly == Stream(TRUE, FALSE, 0)

Stamped(utc) == Stream(TRUE, TRUE, utc)

Video(streams, complete) == [streams |-> streams, complete |-> complete]

EmbeddedTexts == {strftime(Civil(2, 0)), strftime(Civil(2, 12)), strftime(Civil(3, 0))}

ImageContents ==
    {Image(e, "ok") : e \in {NoExif, ExifOf(EmptyText), ExifOf(BadText)}
                           \cup {ExifOf(t) : t \in EmbeddedTexts}}
    \cup {Image(NoExif, "load_fails"), Image(NoExif, "dump_fails")}

StreamOptions ==
    {NoTags, TagsOnly, Stamped(Civil(1, 23)), Stamped(Civil(2, 11))}

VideoContents ==
    {Video(ss, TRUE) : ss \in UNION {[1..k -> StreamOptions] : k \in 1..MaxStreams}}

Contents(n) == IF n \in ImageNames THEN ImageContents ELSE VideoContents

\* the sidecar documents of a media file: how many files of its directory
\* match "^<name>.*\.json$", and the one document's fields
GeoOptions ==
    {ZeroGeo,
     [f \in GeoFields |-> IF f \in {"latitude", "longitude"} THEN 1 ELSE 0],
     [f \in GeoFields |-> IF f \in {"latitude", "altitude", "longitudeSpan"} THEN 1 ELSE 2]}

Sidecar(count, utc_marker, timestamp, geo) ==
    [count |-> count, formatted_utc |-> utc_marker, timestamp |-> timestamp,
     geoData |-> geo]

NoSidecar == Sidecar(0, TRUE, 0, ZeroGeo)

SidecarOptions ==
    {NoSidecar, Sidecar(2, TRUE, Civil(1, 23), ZeroGeo),
     Sidecar(1, FALSE, Civil(1, 23), ZeroGeo)}
    \cup {Sidecar(1, TRUE, Civil(1, 22), g) : g \in GeoOptions}

Path(folder, n) == <<folder, n>>

InFolder(folder) == {n \in Names : Path(folder, n) \in DOMAIN files}

\* folder_path.iterdir(): the media files and, in the library, their sidecars
SidecarsOf(n) == {<<"json", n, i>> : i \in 1..sidecars[n].count}

Entries(folder) ==
    {<<"media", n, 0>> : n \in InFolder(folder)}
    \cup (IF folder = "lib" THEN UNION {SidecarsOf(n) : n \in InFolder(folder)} ELSE {})

NoArgs == [op |-> "none", folder |-> "lib", type |-> "image", source |-> "whatsapp"]

TsIdle ==
    /\ files = EmptyMap
    /\ sidecars = [n \in Names |-> NoSidecar]
    /\ siblings = EmptyMap
    /\ run_pc = "off"
    /\ args = NoArgs
    /\ todo = {}
    /\ cur = OtherImage
    /\ log = EmptyMap
    /\ exit = "none"
    /\ stamped = EmptyMap

\* contents of the files that accompany the one file drawn from every content
PlainContents(n) ==
    IF n \in ImageNames
    THEN {Image(NoExif, "ok"), Image(ExifOf(strftime(Civil(3, 0))), "ok")}
    ELSE {Video(<<TagsOnly>>, TRUE), Video(<<Stamped(Civil(2, 11))>>, TRUE)}

\* images that come with sidecar documents
SidecarImageContents ==
    {Image(NoExif, "ok"), Image(ExifOf(strftime(Civil(2, 0))), "ok"),
     Image(NoExif, "load_fails"), Image(NoExif, "dump_fails")}

\* the library holds one to MaxFiles files: one of them has any content and,
\* if it is an image, any sidecars; the others are plain and have no sidecar
InitFiles ==
    \E focus \in Names, others \in SUBSET Names :
        /\ focus \notin others
        /\ Cardinality(others) < MaxFiles
        /\ files \in [{Path("lib", n) : n \in others \cup {focus}} ->
                        Contents(focus) \cup UNION {PlainContents(n) : n \in others}]
        /\ files[Path("lib", focus)] \in Contents(focus)
        /\ \A n \in others : files[Path("lib", n)] \in PlainContents(n)
        /\ sidecars \in [Names -> SidecarOptions]
        /\ \A n \in Names \ {focus} : sidecars[n] = NoSidecar
        /\ sidecars[focus] # NoSidecar =>
              focus \in ImageNames /\ files[Path("lib", focus)] \in SidecarImageContents

InitTs ==
    /\ InitFiles
    /\ siblings = EmptyMap
    /\ run_pc = "idle"
    /\ args = NoArgs
    /\ todo = {}
    /\ cur = OtherImage
    /\ log = EmptyMap
    /\ exit = "none"
    /\ stamped = EmptyMap

\* --------------------------------------------------- update_metadata: main
Logged(n, what) == log' = (n :> what) @@ log

\* an exception leaves the loop: main re-raises it, the entries not yet
\* visited (the failing one among them) stay unvisited
Raise(error) ==
    /\ run_pc' = "idle"
    /\ exit' = error
    /\ UNCHANGED <<args, todo, cur>>

\* the loop moves on to the next directory entry
Continue(e) ==
    /\ todo' = todo \ {e}
    /\ UNCHANGED <<run_pc, args, cur, exit>>

\* main(): parse the arguments, compile the pattern, list the folder
StartUpdate(folder, type, source) ==
    /\ run_pc = "idle"
    /\ run_pc' = "update"
    /\ args' = [op |-> "update", folder |-> folder, type |-> type, source |-> source]
    /\ todo' = Entries(folder)
    /\ log' = EmptyMap
    /\ exit' = "running"
    /\ UNCHANGED <<files, sidecars, siblings, cur, stamped, hd_vars, geo_vars, fm_vars, md_vars, gi_vars>>

\* mutant: a name that does not match ends the run
NotMatchingAborts(e) == Raise("ValueError")

\* logger.warning(...); continue
NotMatchingOutcome(e) == Continue(e)

\* if not match: warning, continue
SkipNotMatching(e) ==
    /\ run_pc = "update"
    /\ e \in todo
    /\ ~PatternMatches(args.type, args.source, e[2])
    /\ IF e[1] = "media" THEN Logged(e[2], "skipped") ELSE UNCHANGED log
    /\ NotMatchingOutcome(e)
    /\ UNCHANGED <<files, sidecars, siblings, stamped, hd_vars, geo_vars, fm_vars, md_vars, gi_vars>>

\* a sidecar whose name matches the pattern is handed to the parser, which
\* cannot open it as an image or probe it as a video
ParserOnSidecar(e) ==
    /\ run_pc = "update"
    /\ e \in todo
    /\ e[1] = "json"
    /\ PatternMatches(args.type, args.source, e[2])
    /\ Raise("UnidentifiedImageError")
    /\ UNCHANGED <<files, sidecars, siblings, log, stamped, hd_vars, geo_vars, fm_vars, md_vars, gi_vars>>

\* the loop ends
FinishRun ==
    /\ run_pc \in {"update", "copy"}
    /\ todo = {}
    /\ run_pc' = "idle"
    /\ exit' = "completed"
    /\ UNCHANGED <<files, sidecars, siblings, args, todo, cur, log, stamped,
                   hd_vars, geo_vars, fm_vars, md_vars, gi_vars>>

\* ------------------------------------------------------------ image parsers
\* datetime.strptime(date_str, "%Y%m%d")
wa_date_obj(n) == Civil(date_str(n), 0)

\* datetime.strptime(date_str + time_str, "%Y%m%d%H%M%S")
telegram_date_obj(n) == Civil(date_str(n), time_str(n))

\* date_time.year != date_obj.year or ... month ... or ... day ...
WaImageDiffers(date_time, date_obj) == DayOf(date_time) # DayOf(date_obj)

\* date_time != date_obj
TelegramImageDiffers(date_time, date_obj) == date_time # date_obj

\* mutant: the embedded tag is not looked at
EmbeddedIgnored(exif) == FALSE

\* if date_time_original: compare and return, never write
HasEmbedded(exif) == Truthy(exif)

SetExif(path, text) == files' = [files EXCEPT ![path].exif = ExifOf(text)]

\* the body both image parsers share: open the image, load its EXIF block,
\* compare a tag that is set (by the day only, or in full), write a tag that
\* is not
ImagesParser(e, date_obj, day_only, new_date_str) ==
    LET n == e[2]
        path == Path(args.folder, n)
        img == files[path]
    IN  /\ run_pc = "update"
        /\ e \in todo
        /\ e[1] = "media"
        /\ \/ \* piexif.load raises
              /\ img.codec = "load_fails"
              /\ Raise("codec error")
              /\ UNCHANGED <<files, log, stamped>>
           \/ \* strptime raises ValueError on the embedded text
              /\ img.codec # "load_fails"
              /\ HasEmbedded(img.exif)
              /\ ~WellFormedText(img.exif.text)
              /\ Raise("ValueError")
              /\ UNCHANGED <<files, log, stamped>>
           \/ \* already set: warning or info, return
              /\ img.codec # "load_fails"
              /\ HasEmbedded(img.exif)
              /\ WellFormedText(img.exif.text)
              /\ Logged(n, IF (IF day_only
                                THEN WaImageDiffers(strptime(img.exif.text), date_obj)
                                ELSE TelegramImageDiffers(strptime(img.exif.text), date_obj))
                           THEN "conflict" ELSE "matching")
              /\ Continue(e)
              /\ UNCHANGED <<files, stamped>>
           \/ \* piexif.dump raises, nothing catches it
              /\ img.codec = "dump_fails"
              /\ ~HasEmbedded(img.exif)
              /\ Raise("codec error")
              /\ UNCHANGED <<files, log, stamped>>
           \/ \* img.save with the new tag
              /\ img.codec = "ok"
              /\ ~HasEmbedded(img.exif)
              /\ SetExif(path, new_date_str)
              /\ stamped' = (path :> <<args.type, args.source>>) @@ stamped
              /\ Logged(n, "written")
              /\ Continue(e)
        /\ UNCHANGED <<sidecars, siblings, hd_vars, geo_vars, fm_vars, md_vars, gi_vars>>

wa_images_parser(e) ==
    /\ args.type = "image" /\ args.source = "whatsapp"
    /\ PatternMatches(args.type, args.source, e[2])
    /\ ImagesParser(e, wa_date_obj(e[2]), TRUE,
                    strftime_midnight(wa_date_obj(e[2])))

telegram_images_parser(e) ==
    /\ args.type = "image" /\ args.source = "telegram"
    /\ PatternMatches(args.type, args.source, e[2])
    /\ ImagesParser(e, telegram_date_obj(e[2]), FALSE,
                    strftime(telegram_date_obj(e[2])))

\* ------------------------------------------------------------ video parsers
\* an aware datetime: its fields (as hours on the civil time line of its own
\* zone) and its offset from UTC; two aware datetimes compare as instants
Aware(civil, utcoffset) == [civil |-> civil, utcoffset |-> utcoffset]

Instant(dt) == dt.civil - dt.utcoffset

\* datetime.strptime(...).replace(tzinfo=ZoneInfo("Europe/Rome"))
wa_video_date_obj(n) == Aware(Civil(date_str(n), 0), RomeUtcOffset)

telegram_video_date_obj(n) == Aware(Civil(date_str(n), time_str(n)), RomeUtcOffset)

\* datetime.fromisoformat(creation_time.replace("Z", "+00:00")): ffprobe
\* prints the tag in UTC
fromisoformat(creation_time) == Aware(creation_time, 0)

\* the first stream with a creation_time tag, 0 for none
RECURSIVE FirstCreationTime(_)
FirstCreationTime(streams) ==
    IF streams = << >> THEN 0
    ELSE IF streams[1].has_tags /\ streams[1].has_creation_time THEN 1
    ELSE IF FirstCreationTime(Tail(streams)) = 0 THEN 0
    ELSE 1 + FirstCreationTime(Tail(streams))

\* creation_time.year != date_obj.year or ... month ... or ... day ...: the
\* fields of each datetime in its own zone
WaVideoDiffers(creation_time, date_obj) ==
    DayOf(creation_time.civil) # DayOf(date_obj.civil)

\* creation_time != date_obj
TelegramVideoDiffers(creation_time, date_obj) ==
    Instant(creation_time) # Instant(date_obj)

\* mutant: ffmpeg writes over the input file
RemuxInPlace(path, streams) ==
    /\ files' = [files EXCEPT ![path] = Video(streams, FALSE)]
    /\ siblings' = (path :> Video(streams, FALSE)) @@ siblings

\* ffmpeg .input(file).output(copy_file, ..., y=None), where copy_file is
\* file.with_suffix(".copy" + file.suffix): the sibling exists, incomplete,
\* while ffmpeg runs
RemuxToSibling(path, streams) ==
    /\ siblings' = (path :> Video(streams, FALSE)) @@ siblings
    /\ UNCHANGED files

\* metadata=creation_time=<iso_time_str>, codec copy, map 0: the remuxed
\* container carries the instant on every stream, and ffprobe shows it in UTC
RemuxedStreams(streams, iso_time_str) ==
    [i \in 1..Len(streams) |-> Stamped(Instant(iso_time_str))]

\* the body both video parsers share, up to and including the start of
\* ffmpeg; the comparison is by the day only, or in full
VideosParser(e, date_obj, day_only) ==
    LET n == e[2]
        path == Path(args.folder, n)
        streams == files[path].streams
        first == FirstCreationTime(streams)
        creation_time == fromisoformat(streams[first].creation_time)
    IN  /\ run_pc = "update"
        /\ e \in todo
        /\ e[1] = "media"
        /\ \/ \* a stream has a creation time: warning or info, return
              /\ first # 0
              /\ Logged(n, IF (IF day_only
                                THEN WaVideoDiffers(creation_time, date_obj)
                                ELSE TelegramVideoDiffers(creation_time, date_obj))
                           THEN "conflict" ELSE "matching")
              /\ Continue(e)
              /\ UNCHANGED <<files, siblings>>
           \/ \* stream["tags"]["creation_time"] = ... on a stream without tags
              /\ first = 0
              /\ \E i \in 1..Len(streams) : ~streams[i].has_tags
              /\ Raise("KeyError")
              /\ UNCHANGED <<files, siblings, log>>
           \/ \* ffmpeg starts writing the copy
              /\ first = 0
              /\ \A i \in 1..Len(streams) : streams[i].has_tags
              /\ RemuxToSibling(path, RemuxedStreams(streams, date_obj))
              /\ run_pc' = "remux"
              /\ cur' = n
              /\ UNCHANGED <<args, todo, exit, log>>
        /\ UNCHANGED <<sidecars, stamped, hd_vars, geo_vars, fm_vars, md_vars, gi_vars>>

wa_videos_parser(e) ==
    /\ args.type = "video" /\ args.source = "whatsapp"
    /\ PatternMatches(args.type, args.source, e[2])
    /\ VideosParser(e, wa_video_date_obj(e[2]), TRUE)

telegram_videos_parser(e) ==
    /\ args.type = "video" /\ args.source = "telegram"
    /\ PatternMatches(args.type, args.source, e[2])
    /\ VideosParser(e, telegram_video_date_obj(e[2]), FALSE)

\* ffmpeg.execute() raises: the parser never reaches copy_file.replace
RemuxFails ==
    /\ run_pc = "remux"
    /\ Raise("FFmpegError")
    /\ UNCHANGED <<files, sidecars, siblings, log, stamped, hd_vars, geo_vars, fm_vars, md_vars, gi_vars>>

\* ffmpeg.execute() returns: the copy is fully written
RemuxCompletes ==
    /\ run_pc = "remux"
    /\ siblings' = [siblings EXCEPT ![Path(args.folder, cur)].complete = TRUE]
    /\ run_pc' = "replace"
    /\ UNCHANGED <<files, sidecars, args, todo, cur, log, exit, stamped,
                   hd_vars, geo_vars, fm_vars, md_vars, gi_vars>>

\* copy_file.replace(file), then the info line
ReplaceOriginal ==
    LET path == Path(args.folder, cur)
    IN  /\ run_pc = "replace"
        /\ files' = [files EXCEPT ![path] = siblings[path]]
        /\ siblings' = [p \in DOMAIN siblings \ {path} |-> siblings[p]]
        /\ stamped' = (path :> <<args.type, args.source>>) @@ stamped
        /\ Logged(cur, "written")
        /\ run_pc' = "update"
        /\ todo' = todo \ {<<"media", cur, 0>>}
        /\ UNCHANGED <<sidecars, args, cur, exit, hd_vars, geo_vars, fm_vars, md_vars, gi_vars>>

\* ---------------------------------------------- copy_and_set_google_metadata
\* the media info file lists the images of the library (generate_media_infos
\* skips every other extension)
StartCopy ==
    /\ run_pc = "idle"
    /\ run_pc' = "copy"
    /\ args' = [NoArgs EXCEPT !.op = "copy", !.folder = "out"]
    /\ todo' = {<<"media", n, 0>> : n \in InFolder("lib") \cap ImageNames}
    /\ log' = EmptyMap
    /\ exit' = "running"
    /\ UNCHANGED <<files, sidecars, siblings, cur, stamped, hd_vars, geo_vars, fm_vars, md_vars, gi_vars>>

\* datetime.fromtimestamp(timestamp, tz=utc).astimezone(ZoneInfo('Europe/Rome'))
_get_datetime_from_google_metadata(sidecar) ==
    Aware(sidecar.timestamp + RomeUtcOffset, RomeUtcOffset)

\* shutil.copy2(media_data['path'], output / media_name) creates the output
\* file or overwrites it with the library file; the output file after the
\* iteration is the library file as copied, or as stamped by _set_img_datetime
OutputBecomes(n, content) ==
    files' = [p \in DOMAIN files \cup {Path("out", n)} |->
                IF p = Path("out", n) THEN content ELSE files[p]]

\* mutant: the copy's tag is not looked at
CopyTagIgnored(img) == FALSE

\* _check_img_datetime_exists(copied_media_path)
_check_img_datetime_exists(img) == Truthy(img.exif)

\* one iteration of the loop over media_data
CopyItem(e) ==
    LET n == e[2]
        img == files[Path("lib", n)]
        sidecar == sidecars[n]
        datetime_taken == _get_datetime_from_google_metadata(sidecar)
    IN  /\ run_pc = "copy"
        /\ e \in todo
        /\ stamped' = [p \in DOMAIN stamped \ {Path("out", n)} |-> stamped[p]]
        /\ \/ \* piexif.load raises in _check_img_datetime_exists
              /\ img.codec = "load_fails"
              /\ OutputBecomes(n, img)
              /\ Raise("codec error")
              /\ UNCHANGED log
           \/ \* the copy has a shooting date: nothing more to do
              /\ img.codec # "load_fails"
              /\ _check_img_datetime_exists(img)
              /\ OutputBecomes(n, img)
              /\ Logged(n, "embedded")
              /\ Continue(e)
           \/ \* _get_google_metadata_file: more than one match
              /\ img.codec # "load_fails"
              /\ ~_check_img_datetime_exists(img)
              /\ sidecar.count > 1
              /\ OutputBecomes(n, img)
              /\ Raise("RuntimeError")
              /\ UNCHANGED log
           \/ \* no sidecar: warning, continue
              /\ img.codec # "load_fails"
              /\ ~_check_img_datetime_exists(img)
              /\ sidecar.count = 0
              /\ OutputBecomes(n, img)
              /\ Logged(n, "no sidecar")
              /\ Continue(e)
           \/ \* _check_geodata raises
              /\ img.codec # "load_fails"
              /\ ~_check_img_datetime_exists(img)
              /\ sidecar.count = 1
              /\ GeodataRaises(sidecar.geoData)
              /\ OutputBecomes(n, img)
              /\ Raise("ValueError")
              /\ UNCHANGED log
           \/ \* photoTakenTime.formatted does not end with UTC
              /\ img.codec # "load_fails"
              /\ ~_check_img_datetime_exists(img)
              /\ sidecar.count = 1
              /\ ~GeodataRaises(sidecar.geoData)
              /\ ~sidecar.formatted_utc
              /\ OutputBecomes(n, img)
              /\ Raise("ValueError")
              /\ UNCHANGED log
           \/ \* _set_img_datetime: piexif.dump raises InvalidImageDataError,
              \* which is caught and logged; the loop goes on
              /\ img.codec = "dump_fails"
              /\ ~_check_img_datetime_exists(img)
              /\ sidecar.count = 1
              /\ ~GeodataRaises(sidecar.geoData)
              /\ sidecar.formatted_utc
              /\ OutputBecomes(n, img)
              /\ Logged(n, "dump failed")
              /\ Continue(e)
           \/ \* _set_img_datetime saves the copy with the sidecar's time
              /\ img.codec = "ok"
              /\ ~_check_img_datetime_exists(img)
              /\ sidecar.count = 1
              /\ ~GeodataRaises(sidecar.geoData)
              /\ sidecar.formatted_utc
              /\ OutputBecomes(n, [img EXCEPT !.exif = ExifOf(strftime(datetime_taken.civil))])
              /\ Logged(n, "written")
              /\ Continue(e)
        /\ UNCHANGED <<sidecars, siblings, hd_vars, geo_vars, fm_vars, md_vars, gi_vars>>

AllEntries == {<<"media", n, 0>> : n \in Names} \cup {<<"json", n, i>> : n \in Names, i \in 1..2}

\* ------------------------------------------------- _get_google_metadata_file
\* names in a directory besides the media file
MaxDirEntries == 3

\* file names are sequences of characters
JsonSuffix == <<".", "j", "s", "o", "n">>

MediaNames == {<<"a">>, <<"a", "b">>, <<"a">> \o JsonSuffix}

\* names a directory may hold besides the media file: sidecars of each media
\* name with and without something between name and suffix, a sidecar with
\* something after the suffix, a name that is the suffix alone, and a
\* sidecar of a name no media name starts
DirNames ==
    MediaNames
    \cup {m \o JsonSuffix : m \in MediaNames}
    \cup {<<"a", "x">> \o JsonSuffix, <<"a">> \o JsonSuffix \o <<"x">>,
          JsonSuffix, <<"b">> \o JsonSuffix}

IsPrefix(p, f) == Len(p) <= Len(f) /\ SubSeq(f, 1, Len(p)) = p

EndsWith(f, suffix) ==
    Len(suffix) <= Len(f) /\ SubSeq(f, Len(f) - Len(suffix) + 1, Len(f)) = suffix

\* re.compile(rf"^{re.escape(file_name)}.*\.json$").match(name): the literal
\* name, then anything, then the suffix after the name's last character
PatternMatch(file_name, name) ==
    /\ IsPrefix(file_name, name)
    /\ EndsWith(SubSeq(name, Len(file_name) + 1, Len(name)), JsonSuffix)

\* mutant: the test lets two matches through
MoreThanTwoMatches(count) == count > 2

\* if match_count > 1
MultipleMatches(count) == count > 1

\* None
NoFile == << >>

MdIdle ==
    /\ md_pc = "idle"
    /\ media_path = NoFile
    /\ directory = {}
    /\ unvisited = {}
    /\ match_count = 0
    /\ metadata_file = NoFile

\* the media file exists in its directory; match_count = 0, metadata_file = None
InitLookup ==
    /\ md_pc = "loop"
    /\ media_path \in MediaNames
    /\ \E others \in SUBSET DirNames :
          /\ Cardinality(others \ {media_path}) <= MaxDirEntries
          /\ directory = others \cup {media_path}
    /\ unvisited = directory
    /\ match_count = 0
    /\ metadata_file = NoFile

\* for file in media_path.parent.iterdir(): one entry, in whatever order the
\* directory yields them
VisitDirEntry(file) ==
    /\ md_pc = "loop"
    /\ file \in unvisited
    /\ unvisited' = unvisited \ {file}
    /\ IF PatternMatch(media_path, file)
       THEN match_count' = match_count + 1 /\ metadata_file' = file
       ELSE UNCHANGED <<match_count, metadata_file>>
    /\ UNCHANGED <<md_pc, media_path, directory, hd_vars, geo_vars, fm_vars, ts_vars, gi_vars>>

\* raise RuntimeError
MetadataFileRaise ==
    /\ md_pc = "loop"
    /\ unvisited = {}
    /\ MultipleMatches(match_count)
    /\ md_pc' = "RuntimeError"
    /\ UNCHANGED <<media_path, directory, unvisited, match_count, metadata_file,
                   hd_vars, geo_vars, fm_vars, ts_vars, gi_vars>>

\* return metadata_file
MetadataFileReturn ==
    /\ md_pc = "loop"
    /\ unvisited = {}
    /\ ~MultipleMatches(match_count)
    /\ md_pc' = "returned"
    /\ UNCHANGED <<media_path, directory, unvisited, match_count, metadata_file,
                   hd_vars, geo_vars, fm_vars, ts_vars, gi_vars>>

\* ------------------------------ check_missing_extensions, generate_media_infos
\* files in the media folder's tree
MaxTreeFiles == 3

IMAGE_EXTENSIONS == {".JPG", ".jpeg", ".PNG", ".jpg", ".gif", ".png", ".JPEG"}

VIDEO_EXTENSIONS == {".MP4", ".avi", ".mp4", ".3gp"}

OTHER_EXTENSIONS == {".json", ".MP", ".html"}

ALL_EXPECTED_EXTENSIONS == IMAGE_EXTENSIONS \cup VIDEO_EXTENSIONS \cup OTHER_EXTENSIONS

\* directories of the tree, as the parts of the path below the media folder
TreeDirs == {<< >>, <<"sub">>, <<"Cestino">>}

TreeNames == {"a.jpg", "b.png", "a-modificato.jpg", "v.mp4", "n.txt"}

TreePaths == TreeDirs \X TreeNames

\* file_path.suffix
Suffix == [n \in TreeNames |->
    CASE n \in {"a.jpg", "a-modificato.jpg"} -> ".jpg"
      [] n = "b.png" -> ".png"
      [] n = "v.mp4" -> ".mp4"
      [] OTHER -> ".txt"]

\* "modificato" in file_path.name
HasModificato == [n \in TreeNames |-> n = "a-modificato.jpg"]

\* "Cestino" in file_path.parts
InCestino(file_path) == \E i \in 1..Len(file_path[1]) : file_path[1][i] = "Cestino"

\* what a file holds: one of two pictures, or bytes no decoder accepts
Pictures == {"p1", "p2"}

FileContents == Pictures \cup {"corrupt"}

Decodable(content) == content \in Pictures

\* the five imagehash strings of a picture: equal for equal pictures
HashesOf(content) == [k \in Kinds |-> <<k, content>>]

\* _get_all_extensions(folder_path)
_get_all_extensions(t) == {Suffix[file_path[2]] : file_path \in DOMAIN t}

\* mutant: every extension is expected
NothingMissing(current_extensions) == {}

\* current_extensions.difference(ALL_EXPECTED_EXTENSIONS), non-empty exactly
\* when current_extensions is not a subset of ALL_EXPECTED_EXTENSIONS
missing_extensions(current_extensions) == current_extensions \ ALL_EXPECTED_EXTENSIONS

\* the three filters of the loop: a file that passes them is an included file
Included(file_path) ==
    /\ ~InCestino(file_path)
    /\ ~HasModificato[file_path[2]]
    /\ Suffix[file_path[2]] \in IMAGE_EXTENSIONS

\* mutant: the name is never found in the catalog
NeverDuplicate(name, info) == FALSE

\* if file_path.name in export_info
IsDuplicate(name, info) == name \in DOMAIN info

NoDocument == [written |-> FALSE, content |-> EmptyMap]

GiIdle ==
    /\ gi_pc = "idle"
    /\ tree = EmptyMap
    /\ pending = {}
    /\ export_info = EmptyMap
    /\ hashed = {}
    /\ media_info_file = NoDocument
    /\ gi_exit = "none"

\* main is started with --generate-media-infos on a folder of up to
\* MaxTreeFiles files; only an image's content matters to the run
InitGenerate ==
    /\ gi_pc = "check"
    /\ \E paths \in SUBSET TreePaths :
          /\ Cardinality(paths) <= MaxTreeFiles
          /\ tree \in [paths -> FileContents]
    /\ \A file_path \in DOMAIN tree :
          Suffix[file_path[2]] \notin IMAGE_EXTENSIONS => tree[file_path] = "p1"
    /\ pending = DOMAIN tree
    /\ export_info = EmptyMap
    /\ hashed = {}
    /\ media_info_file = NoDocument
    /\ gi_exit = "none"

\* check_missing_extensions raises ValueError: main ends before
\* generate_media_infos is called
CheckExtensionsRaise ==
    /\ gi_pc = "check"
    /\ missing_extensions(_get_all_extensions(tree)) # {}
    /\ gi_pc' = "done"
    /\ gi_exit' = "ValueError"
    /\ UNCHANGED <<tree, pending, export_info, hashed, media_info_file,
                   hd_vars, geo_vars, fm_vars, ts_vars, md_vars>>

\* check_missing_extensions returns: generate_media_infos starts its loop
CheckExtensionsPass ==
    /\ gi_pc = "check"
    /\ missing_extensions(_get_all_extensions(tree)) = {}
    /\ gi_pc' = "loop"
    /\ UNCHANGED <<tree, pending, export_info, hashed, media_info_file, gi_exit,
                   hd_vars, geo_vars, fm_vars, ts_vars, md_vars>>

\* a file in Cestino, with modificato in its name, or that is no image
SkipFile(file_path) ==
    /\ gi_pc = "loop"
    /\ file_path \in pending
    /\ ~Included(file_path)
    /\ pending' = pending \ {file_path}
    /\ UNCHANGED <<gi_pc, tree, export_info, hashed, media_info_file, gi_exit,
                   hd_vars, geo_vars, fm_vars, ts_vars, md_vars>>

\* Duplicate file found: warning, continue
SkipDuplicate(file_path) ==
    /\ gi_pc = "loop"
    /\ file_path \in pending
    /\ Included(file_path)
    /\ IsDuplicate(file_path[2], export_info)
    /\ pending' = pending \ {file_path}
    /\ UNCHANGED <<gi_pc, tree, export_info, hashed, media_info_file, gi_exit,
                   hd_vars, geo_vars, fm_vars, ts_vars, md_vars>>

\* export_info[file_path.name] = {'path': ..., 'hashes': {...}}
HashFile(file_path) ==
    /\ gi_pc = "loop"
    /\ file_path \in pending
    /\ Included(file_path)
    /\ ~IsDuplicate(file_path[2], export_info)
    /\ Decodable(tree[file_path])
    /\ export_info' = (file_path[2] :> [path |-> file_path,
                                        hashes |-> HashesOf(tree[file_path])])
                       @@ export_info
    /\ hashed' = hashed \cup {file_path}
    /\ pending' = pending \ {file_path}
    /\ UNCHANGED <<gi_pc, tree, media_info_file, gi_exit,
                   hd_vars, geo_vars, fm_vars, ts_vars, md_vars>>

\* mutant: a file that cannot be decoded is skipped
SkipFaultyFile(file_path) ==
    /\ pending' = pending \ {file_path}
    /\ UNCHANGED <<gi_pc, gi_exit>>

\* the exception Image.open or the hash function raises leaves the loop,
\* generate_media_infos and main: nothing catches it
DecodeErrorPropagates(file_path) ==
    /\ gi_pc' = "done"
    /\ gi_exit' = "decode error"
    /\ UNCHANGED pending

\* Image.open or one of the five hash calls raises
HashFails(file_path) ==
    /\ gi_pc = "loop"
    /\ file_path \in pending
    /\ Included(file_path)
    /\ ~IsDuplicate(file_path[2], export_info)
    /\ ~Decodable(tree[file_path])
    /\ DecodeErrorPropagates(file_path)
    /\ UNCHANGED <<tree, export_info, hashed, media_info_file,
                   hd_vars, geo_vars, fm_vars, ts_vars, md_vars>>

\* json.dump(export_info, json_file, ...) after the loop
SaveInfos ==
    /\ gi_pc = "loop"
    /\ pending = {}
    /\ media_info_file' = [written |-> TRUE, content |-> export_info]
    /\ gi_pc' = "done"
    /\ gi_exit' = "completed"
    /\ UNCHANGED <<tree, pending, export_info, hashed,
                   hd_vars, geo_vars, fm_vars, ts_vars, md_vars>>

\* ----------------------------------------------------------- specifications
InitSpecHamming == InitHamming /\ GeoIdle /\ FmIdle /\ TsIdle /\ MdIdle /\ GiIdle

NextHamming == HammingCall

SpecHamming == InitSpecHamming /\ [][NextHamming]_vars

InitSpecGeo == InitGeo /\ HdIdle /\ FmIdle /\ TsIdle /\ MdIdle /\ GiIdle

NextGeo == CheckGeodataRaise \/ CheckGeodataReturn

SpecGeo == InitSpecGeo /\ [][NextGeo]_vars

InitSpecMatch == InitMatch /\ HdIdle /\ GeoIdle /\ TsIdle /\ MdIdle /\ GiIdle

NextMatch ==
    \/ \E name \in ManyNames : RecordMissing(name)
    \/ \E name \in ManyNames : CompareHashes(name)
    \/ SaveReport

SpecMatch == InitSpecMatch /\ [][NextMatch]_vars

InitSpecGenerate == InitGenerate /\ HdIdle /\ GeoIdle /\ FmIdle /\ TsIdle /\ MdIdle

NextGenerate ==
    \/ CheckExtensionsRaise
    \/ CheckExtensionsPass
    \/ \E file_path \in TreePaths : SkipFile(file_path)
    \/ \E file_path \in TreePaths : SkipDuplicate(file_path)
    \/ \E file_path \in TreePaths : HashFile(file_path)
    \/ \E file_path \in TreePaths : HashFails(file_path)
    \/ SaveInfos

SpecGenerate == InitSpecGenerate /\ [][NextGenerate]_vars

InitSpecLookup == InitLookup /\ HdIdle /\ GeoIdle /\ FmIdle /\ TsIdle /\ GiIdle

NextLookup ==
    \/ \E file \in DirNames : VisitDirEntry(file)
    \/ MetadataFileRaise
    \/ MetadataFileReturn

SpecLookup == InitSpecLookup /\ [][NextLookup]_vars

Init == InitTs /\ HdIdle /\ GeoIdle /\ FmIdle /\ MdIdle /\ GiIdle

Next ==
    \/ \E folder \in Folders, type \in {"image", "video"}, source \in {"whatsapp", "telegram"} :
          StartUpdate(folder, type, source)
    \/ \E e \in AllEntries : SkipNotMatching(e)
    \/ \E e \in AllEntries : ParserOnSidecar(e)
    \/ \E e \in AllEntries : wa_images_parser(e)
    \/ \E e \in AllEntries : telegram_images_parser(e)
    \/ \E e \in AllEntries : wa_videos_parser(e)
    \/ \E e \in AllEntries : telegram_videos_parser(e)
    \/ RemuxFails
    \/ RemuxCompletes
    \/ ReplaceOriginal
    \/ StartCopy
    \/ \E e \in AllEntries : CopyItem(e)
    \/ FinishRun

Spec == Init /\ [][Next]_vars

\* ------------------------------------------------------------------ claims
\* count of positions, among those both strings have, where they differ
DifferingPositions(a, b) ==
    Cardinality({i \in 1..Min(Len(a), Len(b)) : a[i] # b[i]})

RECURSIVE SumOverUnequalKinds(_, _, _)
SumOverUnequalKinds(i, sh, dh) ==
    IF i = 0 THEN 0
    ELSE (IF sh[KindOrder[i]] # dh[KindOrder[i]]
          THEN DifferingPositions(sh[KindOrder[i]], dh[KindOrder[i]]) ELSE 0)
         + SumOverUnequalKinds(i - 1, sh, dh)

\* C1: every name found in both catalogs gets a verdict, and the verdict is
\* the hash-mismatch warning exactly when the Hamming distances of its
\* literally unequal hash kinds sum to more than 10; a sum of 10 or less,
\* or no unequal kind, is logged as matching.
C1_WarningIffDistanceAboveThreshold ==
    /\ \A n \in DOMAIN verdicts :
          verdicts[n].warning <=>
              SumOverUnequalKinds(Len(KindOrder), src_data[n].hashes,
                                  dst_data[n].hashes) > Threshold
    /\ fm_pc = "done" => DOMAIN verdicts = DOMAIN src_data \cap DOMAIN dst_data

\* a name with unequal hashes summing to exactly 10, logged as matching
C1_Witness ==
    /\ fm_pc = "done"
    /\ \E n \in DOMAIN verdicts :
          /\ verdicts[n].mismatching_hashes # << >>
          /\ verdicts[n].total_distance = Threshold
          /\ ~verdicts[n].warning

\* C2: the report written by find_missing_media has as keys exactly the
\* names of the source catalog that the destination catalog lacks, each
\* mapped to the source entry's path; nothing is written before the loop ends.
C2_ReportIsSourceMinusDestination ==
    /\ output_file.written <=> fm_pc = "done"
    /\ output_file.written =>
          /\ DOMAIN output_file.content = DOMAIN src_data \ DOMAIN dst_data
          /\ \A n \in DOMAIN output_file.content :
                output_file.content[n] = [path |-> src_data[n].path]

\* a report with a missing name, beside a name in both catalogs whose hashes
\* drew the mismatch warning
C2_Witness ==
    /\ output_file.written
    /\ DOMAIN output_file.content # {}
    /\ \E n \in DOMAIN verdicts : verdicts[n].warning

\* C5: _check_geodata returns normally exactly for the sidecars whose five
\* geoData fields are all zero, and raises for every other sidecar.
C5_GeodataAcceptedIffAllZero ==
    geo_pc = "done" =>
        (geo_result = "ok" <=> supplemental_metadata.geoData = ZeroGeo)

\* C6: _hamming_distance raises whenever its two strings differ in length.
C6_UnequalLengthRaises ==
    (hd_pc # "call" /\ Len(chaine1) # Len(chaine2)) => hd_pc = "raised"

\* C7: on strings of equal length _hamming_distance is symmetric, is zero
\* exactly when the strings are equal, and lies between 0 and the length.
C7_HammingIsAMetricOnEqualLengths ==
    (hd_pc = "returned" /\ Len(chaine1) = Len(chaine2)) =>
        /\ hd_ab = hd_ba
        /\ hd_ab = 0 <=> chaine1 = chaine2
        /\ 0 <= hd_ab
        /\ hd_ab <= Len(chaine1)

\* two different strings of the longest length, differing in some but not all
\* positions
C7_Witness ==
    /\ hd_pc = "returned"
    /\ Len(chaine1) = MaxLen
    /\ Len(chaine2) = MaxLen
    /\ 0 < hd_ab
    /\ hd_ab < MaxLen

\* a sidecar name of a media name: the media name, any characters, ".json"
IsCandidate(name, file) ==
    \E k \in 0..Len(file) :
        /\ Len(name) + k + Len(JsonSuffix) = Len(file)
        /\ file = name \o SubSeq(file, Len(name) + 1, Len(name) + k) \o JsonSuffix

CandidatesOf(name, dir) == {file \in dir : IsCandidate(name, file)}

\* C11: _get_google_metadata_file raises exactly when more than one name of
\* the directory is a sidecar name of the media file, returns the one
\* candidate when there is exactly one, and returns None when there is none.
C11_NeverGuessesAmongCandidates ==
    LET candidates == CandidatesOf(media_path, directory)
    IN  /\ md_pc = "RuntimeError" => Cardinality(candidates) > 1
        /\ md_pc = "returned" =>
              /\ Cardinality(candidates) <= 1
              /\ candidates = {} => metadata_file = NoFile
              /\ candidates # {} => candidates = {metadata_file}

\* the call raised in a directory that holds, besides two candidates, the
\* sidecar of a longer media name
C11_Witness ==
    /\ md_pc = "RuntimeError"
    /\ media_path = <<"a">>
    /\ <<"a", "b">> \o JsonSuffix \in directory
    /\ Cardinality(CandidatesOf(media_path, directory)) = 2

\* the included files of the tree that carry a name
IncludedNamed(name) ==
    {file_path \in DOMAIN tree : Included(file_path) /\ file_path[2] = name}

\* C12: an entry of the catalog is never changed once it is there, and the
\* entry a name gets is the path and hashes of the first included file of
\* that name the traversal yields, whatever the traversal order and however
\* many included files share the name.
C12_FirstSeenEntryWins ==
    [][/\ \A name \in DOMAIN export_info :
             name \in DOMAIN export_info' /\ export_info'[name] = export_info[name]
       /\ \A name \in DOMAIN export_info' \ DOMAIN export_info :
             /\ IncludedNamed(name) \subseteq pending
             /\ \E file_path \in pending \ pending' :
                   /\ file_path[2] = name
                   /\ export_info'[name] = [path |-> file_path,
                                            hashes |-> HashesOf(tree[file_path])]]_vars

\* a catalog written for a tree where two included files with different
\* pictures share a name
C12_Witness ==
    /\ gi_exit = "completed"
    /\ \E name \in DOMAIN media_info_file.content :
          \E f \in IncludedNamed(name), g \in IncludedNamed(name) :
              f # g /\ tree[f] # tree[g]

\* C13: when some file of the tree (skipped by the catalog or not) has an
\* extension outside the allow-list, main ends with the ValueError of
\* check_missing_extensions: no file is hashed, the loop of
\* generate_media_infos is never entered and no document is written.
C13_UnexpectedExtensionStopsBeforeHashing ==
    (\E file_path \in DOMAIN tree :
        Suffix[file_path[2]] \notin ALL_EXPECTED_EXTENSIONS) =>
        /\ hashed = {}
        /\ export_info = EmptyMap
        /\ ~media_info_file.written
        /\ gi_pc \in {"check", "done"}
        /\ gi_pc = "done" => gi_exit = "ValueError"

\* the run was refused although the tree holds an image that would have been
\* hashed, and the unexpected file is one the loop would have skipped
C13_Witness ==
    /\ gi_exit = "ValueError"
    /\ \E file_path \in DOMAIN tree :
          Included(file_path) /\ Decodable(tree[file_path])
    /\ \E file_path \in DOMAIN tree :
          InCestino(file_path) /\ Suffix[file_path[2]] \notin ALL_EXPECTED_EXTENSIONS

\* C14: a decode failure ends the run with the error and without a document;
\* an included file that cannot be decoded gets past the loop only as the
\* duplicate of a file already hashed; and a written document means the run
\* completed with, for every included file, the first-seen file of its name
\* hashed successfully and in the document.
C14_NoPartialCatalogWritten ==
    /\ gi_exit = "decode error" => gi_pc = "done" /\ ~media_info_file.written
    /\ \A file_path \in DOMAIN tree \ pending :
          (Included(file_path) /\ ~Decodable(tree[file_path])) =>
              \E g \in hashed : g[2] = file_path[2]
    /\ media_info_file.written =>
          /\ gi_exit = "completed"
          /\ pending = {}
          /\ \A file_path \in hashed : Decodable(tree[file_path])
          /\ \A file_path \in DOMAIN tree :
                Included(file_path) =>
                    /\ \E g \in hashed : g[2] = file_path[2]
                    /\ file_path[2] \in DOMAIN media_info_file.content

\* the decode failure came after another file had been hashed into the
\* catalog: the partial catalog is dropped
C14_Witness ==
    /\ gi_exit = "decode error"
    /\ export_info # EmptyMap
    /\ ~media_info_file.written

\* the embedded capture time of a file, << >> for none: tag 36867 of an
\* image, the creation_time tags of a video's streams
IsVideoFile(path) == path[2] \in VideoNames

StreamTimes(streams) ==
    [i \in 1..Len(streams) |->
        IF streams[i].has_tags /\ streams[i].has_creation_time
        THEN <<streams[i].creation_time>> ELSE << >>]

EmbeddedTime(path, file) ==
    IF IsVideoFile(path)
    THEN (IF FirstCreationTime(file.streams) = 0 THEN << >> ELSE StreamTimes(file.streams))
    ELSE (IF Truthy(file.exif) THEN file.exif.text ELSE << >>)

KeepsEmbeddedTime(path) ==
    /\ path \in DOMAIN files'
    /\ EmbeddedTime(path, files'[path]) = EmbeddedTime(path, files[path])

C4_SecondRunFindsMatch ==
    (args.op = "update" /\ run_pc # "idle") =>
        \A n \in DOMAIN log :
            (/\ Path(args.folder, n) \in DOMAIN stamped
             /\ stamped[Path(args.folder, n)] = <<args.type, args.source>>
             /\ log[n] # "written")
            => log[n] = "matching"

\* the embedded time of a visited file as a civil time in Rome
EmbeddedCivil(path, file) ==
    IF IsVideoFile(path)
    THEN file.streams[FirstCreationTime(file.streams)].creation_time + RomeUtcOffset
    ELSE strptime(file.exif.text)

\* the filename's date, and time for Telegram, against a civil time
SameAtFilenamePrecision(n, civil) ==
    IF NameApp[n] = "whatsapp" THEN DayOf(civil) = date_str(n)
    ELSE civil = Civil(date_str(n), time_str(n))

\* C8: a file with an embedded time is logged as matching exactly when the
\* embedded time and the filename's time are the same civil time at the
\* precision of the filename (the day for WhatsApp, the full time for
\* Telegram), and as a conflict otherwise; it is never written.
C8_ComparesCivilTimeAtFilenamePrecision ==
    args.op = "update" =>
        \A n \in DOMAIN log :
            LET path == Path(args.folder, n)
            IN  log[n] \in {"matching", "conflict"} =>
                    (log[n] = "matching" <=>
                        SameAtFilenamePrecision(n, EmbeddedCivil(path, files[path])))

AllVideosComplete ==
    \A path \in DOMAIN files : IsVideoFile(path) => files[path].complete

\* C9: a video file is only ever changed by the replace step, which puts the
\* fully written sibling in its place; while ffmpeg runs and when it fails
\* the original is untouched, and no video file is ever incomplete.
C9_OriginalReplacedOnlyByCompleteCopy ==
    /\ []AllVideosComplete
    /\ [][\A path \in DOMAIN files :
            IsVideoFile(path) =>
                \/ path \in DOMAIN files' /\ files'[path] = files[path]
                \/ /\ run_pc = "replace"
                   /\ path = Path(args.folder, cur)
                   /\ siblings[path].complete
                   /\ files'[path] = siblings[path]]_vars

\* ffmpeg failed: the sibling is half written, the original has no creation
\* time yet
C9_Witness ==
    /\ exit = "FFmpegError"
    /\ run_pc = "idle"
    /\ ~siblings[Path(args.folder, cur)].complete
    /\ files[Path(args.folder, cur)].complete
    /\ FirstCreationTime(files[Path(args.folder, cur)].streams) = 0

\* C10: an EXIF codec failure on one image never ends the run while other
\* files are still to be visited: it is caught and the loop goes on.
C10_CodecFailureNeverStopsTheBatch ==
    ~(exit = "codec error" /\ Cardinality(todo) > 1)

\* the value a parser writes for a name: the filename's date at midnight for
\* WhatsApp, date and time for Telegram; for a video the instant of that
\* civil time in Rome, on every stream
FilenameStamp(path, file) ==
    LET n == path[2]
        civil == IF NameApp[n] = "whatsapp" THEN Civil(date_str(n), 0)
                 ELSE Civil(date_str(n), time_str(n))
    IN  IF IsVideoFile(path)
        THEN \A i \in 1..Len(file.streams) :
                file.streams[i] = Stamped(civil - RomeUtcOffset)
        ELSE file.exif = ExifOf(<<DayOf(civil), HourOf(civil)>>)

\* C15 as claimed: a file the copy run leaves without an embedded time for
\* want of a sidecar is one whose name matches no filename pattern (for a
\* name that matches, the filename would have been tried next).
C15_FilenameTriedAfterSidecar ==
    (args.op = "copy" /\ exit = "completed") =>
        \A n \in DOMAIN log : log[n] = "no sidecar" => NameApp[n] = "none"

\* C15 as amended: copy_and_set_google_metadata tries the embedded time and
\* then the sidecar, and leaves a file without sidecar without a time,
\* whatever its name; the filename is tried only by a run of update_metadata,
\* which tries the embedded time and then the filename against the one
\* pattern selected on the command line: a file is skipped exactly when its
\* name does not match that pattern, and a file that is written carries the
\* time of its name.
C15_FilenameOnlyInUpdateRun ==
    /\ args.op = "copy" =>
          \A n \in DOMAIN log :
              log[n] = "no sidecar" =>
                  /\ Path("out", n) \in DOMAIN files
                  /\ EmbeddedTime(Path("out", n), files[Path("out", n)]) = << >>
    /\ args.op = "update" =>
          \A n \in DOMAIN log :
              /\ log[n] = "skipped" <=>
                    ~(NameType[n] = args.type /\ NameApp[n] = args.source)
              /\ log[n] = "written" =>
                    FilenameStamp(Path(args.folder, n), files[Path(args.folder, n)])

\* a copy run left a WhatsApp-named image without a time for want of a
\* sidecar
C15_Witness ==
    /\ args.op = "copy"
    /\ exit = "completed"
    /\ \E n \in DOMAIN log :
          /\ log[n] = "no sidecar"
          /\ NameApp[n] = "whatsapp"
          /\ EmbeddedTime(Path("out", n), files[Path("out", n)]) = << >>

\* C16: the step that reports a file whose name does not match changes no
\* file, raises nothing and leaves every other entry of the folder to be
\* visited; a file is reported as skipped only if its name does not match;
\* and a run that completes has visited every file of the folder.
C16_NotMatchingIsSkipped ==
    /\ [](args.op = "update" =>
            /\ \A n \in DOMAIN log :
                  log[n] = "skipped" => ~PatternMatches(args.type, args.source, n)
            /\ exit = "completed" => InFolder(args.folder) \subseteq DOMAIN log)
    /\ [][\A n \in Names :
            (n \notin DOMAIN log /\ n \in DOMAIN log' /\ log'[n] = "skipped") =>
                /\ files' = files
                /\ exit' = exit
                /\ run_pc' = "update"
                /\ todo' = todo \ {<<"media", n, 0>>}]_vars

\* a run completed in which one file was skipped and another was written
C16_Witness ==
    /\ args.op = "update"
    /\ exit = "completed"
    /\ \E n \in DOMAIN log : log[n] = "skipped"
    /\ \E n \in DOMAIN log : log[n] = "written"

\* C17: a video parser ends its visit of a file with a creation time on every
\* stream of the file, whatever the streams were: it never fails on a stream
\* without a tags map and never leaves a stream without the tag.
C17_EveryStreamEndsWithCreationTime ==
    (args.op = "update" /\ args.type = "video") =>
        /\ exit # "KeyError"
        /\ \A n \in DOMAIN log :
              log[n] \in {"matching", "conflict", "written"} =>
                  LET streams == files[Path(args.folder, n)].streams
                  IN  \A i \in 1..Len(streams) :
                          streams[i].has_tags /\ streams[i].has_creation_time

====
